---- MODULE Spec2Model ----
(***************************************************************************)
(* Request dispatch and rate limiting of the QuickBooks client.            *)
(*                                                                         *)
(* The source holds several revisions of the dispatcher; a call's op says  *)
(* which one it runs:                                                      *)
(*   req17     Client.req of part_017: every gate is tried without waiting *)
(*   download  Client.GetAttachableDownloadURL of part_001: each gate      *)
(*             waits or fails fast, as params.WaitOnRateLimit says         *)
(*   batch17   Client.batch of part_017, called by BatchRequest: waits on  *)
(*             the realm's batch limiter, then runs req17                  *)
(*   req15     Client.req of part_015: a plain send on globalConcurrent,   *)
(*             which NewClient of that revision leaves nil                 *)
(*                                                                         *)
(* A call in flight is an element of the bag calls; its pc names the next  *)
(* operation on shared state that it performs.  Steps that touch only the  *)
(* call's own variables are part of the shared step before them.           *)
(*                                                                         *)
(* The clock counts ticks of 1/GeneralPerMinute minute.  A bucket's        *)
(* content is counted in units of 1/GeneralPerMinute token, so a limiter   *)
(* of R tokens a minute gains R units a tick and one token is Token units. *)
(***************************************************************************)
EXTENDS Integers, Sequences, FiniteSets, Bags, TLC

\* ---------------------------------------------------------------- bounds
MaxCalls == 2          \* calls made one step at a time in Spec
Preload == 9           \* calls that Preloaded brings to their exchange at once
MaxBurstCalls == 11    \* calls made in SpecBurst
MaxBlockedCalls == 6   \* calls made in Spec15
MaxItems == 65         \* items of a BatchRequest in SpecBatch
MaxTime == 1           \* ticks of the clock
MaxClients == 2        \* clients made in SpecClients
MaxSteps == 6          \* gate operations made in SpecClients
MaxHoldOps == 2        \* calls made and cancelled one by one in SpecHold
MaxHoldTime == 11      \* ticks of the clock in SpecHold
MaxTotal == 2500       \* entities the service holds in SpecFind
MaxLegacyCalls == 2    \* calls made in Spec16
MaxLegacyItems == 31   \* items of a BatchRequest in Spec16
TicksPerMinute == 2    \* ticks of the cool-down timers in a minute

\* ------------------------------------------------------ program constants
GlobalConcurrentCap == 10
GlobalPerMinute == 500
GlobalBurst == 10
RealmConcurrentCap == 10
GeneralPerMinute == 500
GeneralBurst == 10
BatchPerMinute == 40
BatchBurst == 5
ChunkSize == 30
CoolDown == 1          \* minutes
QueryPageSize == 1000

Token == GeneralPerMinute

Realms == {"A", "B"}

VARIABLES
    now,                \* the clock, in ticks
    globalConcurrent,   \* Client.globalConcurrent: a buffered channel
    globalRateLimiter,  \* Client.globalRateLimiter: the content of its bucket
    mu,                 \* RateLimiterManager.mu: TRUE when locked
    limiters,           \* RateLimiterManager.limiters: realm -> tracker id, 0 when absent
    trackers,           \* the RealmRateLimiters objects ever made, by id
    calls,              \* the calls in flight
    br,                 \* the BatchRequest in progress
    budget,             \* number of calls the callers may still make
    done,               \* result -> number of calls that returned it, where tallied
    passed,             \* realm -> tick -> calls let through by the realm's general
                        \* limiter in that tick, where tallied
    throttled,          \* Client.throttled of the revisions that keep the flag
    timers,             \* the cool-down goroutines asleep: ticks left to sleep ->
                        \* number of goroutines
    heap,               \* the objects that calls of NewClient allocated, by address
    clients,            \* the clients that calls of NewClient returned
    find                \* the Find* call in progress

vars == <<now, globalConcurrent, globalRateLimiter, mu, limiters, trackers,
          calls, br, budget, done, passed, throttled, timers, heap, clients, find>>

\* the state of the flag and its timers
legacy == <<throttled, timers>>

\* the state of the clients made side by side, and of the Find* call
world == <<heap, clients, find>>

Min(a, b) == IF a < b THEN a ELSE b

CeilDiv(a, b) == (a + b - 1) \div b

\* ------------------------------------------------------------- channels
\* make(chan struct{}, n)
MakeChanOneMore(n) == [cap |-> n + 1, len |-> 0, nil |-> FALSE]

MakeChan(n) == [cap |-> n, len |-> 0, nil |-> FALSE]

\* the zero value of a channel field
NilChan == [cap |-> 0, len |-> 0, nil |-> TRUE]

\* `ch <- struct{}{}` can proceed
ChanSendReadyOffByOne(ch) == ~ch.nil /\ ch.len <= ch.cap

ChanSendReady(ch) == ~ch.nil /\ ch.len < ch.cap

ChanSend(ch) == [ch EXCEPT !.len = @ + 1]

\* `<-ch` can proceed
ChanRecvReady(ch) == ~ch.nil /\ ch.len > 0

ChanRecv(ch) == [ch EXCEPT !.len = @ - 1]

\* sync.Mutex: Lock() can proceed
MutexFreeAlways(m) == TRUE

MutexFree(m) == ~m

\* ------------------------------------------------------- token buckets
\* rate.NewLimiter(r, b) starts with a full bucket
NewLimiter(burst) == burst * Token

\* the bucket one tick later
Refill(tokens, perMinute, burst) == Min(burst * Token, tokens + perMinute)

\* Allow() takes a token when a whole one is there
AllowOk(tokens) == tokens >= Token

\* ---------------------------------------------------------------- calls
Results == {"ok", "globalConcurrentRL", "globalGeneralRL", "realmGeneralRL",
            "realmConcurrentRL", "apiRl", "failure", "transportErr",
            "decodeErr", "buildErr", "statusErr", "ctxErr", "waitErr", "throttledErr"}

GateResults == {"globalConcurrentRL", "globalGeneralRL", "realmGeneralRL",
                "realmConcurrentRL"}

NewCall(op, realm, wait) ==
    [op |-> op, realm |-> realm, wait |-> wait, pc |-> "gc",
     defers |-> <<>>, limiter |-> 0, exists |-> FALSE, ctxDone |-> FALSE,
     wake |-> 0, gates |-> <<>>, sent |-> FALSE, slow |-> FALSE, status |-> 0,
     decoded |-> FALSE, result |-> "none"]

InFlight == BagToSet(calls)

Replace(c, d) == (calls (-) SetToBag({c})) (+) SetToBag({d})

\* the number of calls in flight that are in the set S
Count(S) == BagCardinality([c \in S \cap InFlight |-> calls[c]])

\* the call has a deferred release of x ("g" global, "r" realm) to run
Holds(c, x) == \E i \in DOMAIN c.defers : c.defers[i] = x

\* `return err`: the result is set, the deferred releases are still to run
RetLeaky(c, res) ==
    [c EXCEPT !.pc = "ret", !.result = res,
              !.defers = IF res = "transportErr" THEN <<>> ELSE @]

Ret(c, res) == [c EXCEPT !.pc = "ret", !.result = res]

\* the RealmRateLimiters that getRealmLimiter makes; realm notes for whom
NewRealmRateLimiters(realm) ==
    [realm |-> realm,
     general |-> NewLimiter(GeneralBurst),
     concurrent |-> MakeChan(RealmConcurrentCap),
     batch |-> NewLimiter(BatchBurst)]

\* the call is let through a gate: gates logs the gates in the order passed
Through(c, gate, pcNext) == [c EXCEPT !.pc = pcNext, !.gates = Append(@, gate), !.wake = 0]

\* Wait() has reserved a token and left `tokens` in the bucket: the call goes
\* on when none is owed, and otherwise sleeps until the token is due
AfterReserve(c, tokens, perMinute, gate, pcNext, pcWait) ==
    IF tokens >= 0 THEN Through(c, gate, pcNext)
    ELSE [c EXCEPT !.pc = pcWait, !.wake = now + CeilDiv(0 - tokens, perMinute)]

\* Reservation.Cancel(): the token goes back, less what later reservations
\* were granted on top of it (the latest one is due when the bucket is at 0)
CancelReservation(tokens, wake, perMinute, burst) ==
    LET latest == IF tokens >= 0 THEN now ELSE now + CeilDiv(0 - tokens, perMinute)
        restore == Token - (latest - wake) * perMinute
    IN  IF wake >= now /\ restore > 0 THEN Min(burst * Token, tokens + restore)
        ELSE tokens

\* what the transport and the service may do with a request
Outcomes == {"transportErr", "s200", "s200bad", "s429", "sOther"}

\* the HTTP status of an outcome; 0 when there is no response
StatusOf(out) ==
    CASE out = "transportErr" -> 0
      [] out \in {"s200", "s200bad"} -> 200
      [] out = "s429" -> 429
      [] OTHER -> 500

\* the result a dispatch returns for an outcome of the exchange
Classify(op, out) ==
    CASE out = "transportErr" -> "transportErr"
      [] out = "s200" -> "ok"
      [] out = "s200bad" -> "decodeErr"
      [] out = "s429" -> IF op = "download" THEN "statusErr" ELSE "apiRl"
      [] OTHER -> IF op = "download" THEN "statusErr" ELSE "failure"

\* ------------------------------------------------------------ BatchRequest
IdleBatch ==
    [pc |-> "idle", realm |-> "A", items |-> <<>>, start |-> 0, batch |-> <<>>,
     res |-> <<>>, allResponses |-> <<>>, err |-> FALSE,
     payloads |-> <<>>, responses |-> <<>>]

\* ---------------------------------------------------------- construction
\* NewClient: the client with its fields set as the revision sets them, and
\* callers that will make n calls
NewClient(concurrent, limiter, n) ==
    /\ now = 0
    /\ globalConcurrent = concurrent
    /\ globalRateLimiter = limiter
    /\ mu = FALSE
    /\ limiters = [r \in Realms |-> 0]
    /\ trackers = <<>>
    /\ calls = EmptyBag
    /\ br = IdleBatch
    /\ budget = n
    /\ done = [r \in Results |-> 0]
    /\ passed = [r \in Realms |-> [t \in 0..MaxTime |-> 0]]
    /\ throttled = FALSE
    /\ timers = [k \in 0..(CoolDown * TicksPerMinute) |-> 0]
    /\ heap = <<>>
    /\ clients = <<>>
    /\ find = [pc |-> "idle", kind |-> "attachables", total |-> 0, TotalCount |-> 0,
               entities |-> <<>>, i |-> 0, result |-> <<>>, err |-> FALSE,
               queries |-> <<>>, last |-> "none"]

\* NewClient of part_017
Init == NewClient(MakeChan(GlobalConcurrentCap), NewLimiter(GlobalBurst), MaxCalls)

\* ------------------------------------------------------- 1. global slot
\* A call is made; its first step is the send on globalConcurrent: a select
\* with a default when the call does not wait, a select with ctx.Done() (or,
\* for req15, a plain send) when it does.  A waiting call that finds no slot
\* is left blocked at pc "gc".  req15 has no global rate limiter.
AfterGlobalSlot(c) ==
    [Through(c, "globalConcurrent", IF c.op = "req15" THEN "lim" ELSE "gr")
        EXCEPT !.defers = <<"g">>]

StartUnchecked(op, realm, wait) ==
    /\ budget > 0
    /\ budget' = budget - 1
    /\ globalConcurrent' = ChanSend(globalConcurrent)
    /\ calls' = calls (+) SetToBag({AfterGlobalSlot(NewCall(op, realm, wait))})
    /\ UNCHANGED <<now, globalRateLimiter, mu, limiters, trackers, br, done, passed,
                   legacy, world>>

Start(op, realm, wait) ==
    /\ budget > 0
    /\ budget' = budget - 1
    /\ LET c == NewCall(op, realm, wait) IN
       IF ChanSendReady(globalConcurrent)
       THEN /\ globalConcurrent' = ChanSend(globalConcurrent)
            /\ calls' = calls (+) SetToBag({AfterGlobalSlot(c)})
       ELSE /\ globalConcurrent' = globalConcurrent
            /\ calls' = calls (+) SetToBag({IF wait THEN c ELSE Ret(c, "globalConcurrentRL")})
    /\ UNCHANGED <<now, globalRateLimiter, mu, limiters, trackers, br, done, passed,
                   legacy, world>>

\* the select with a default, by a call that reaches it later (batch17)
GlobalTryAcquireRefunds(c) ==
    /\ c.pc = "gc" /\ ~c.wait
    /\ IF ChanSendReady(globalConcurrent)
       THEN /\ globalConcurrent' = ChanSend(globalConcurrent)
            /\ calls' = Replace(c, AfterGlobalSlot(c))
            /\ trackers' = trackers
       ELSE /\ globalConcurrent' = globalConcurrent
            /\ calls' = Replace(c, Ret(c, "globalConcurrentRL"))
            /\ trackers' = [trackers EXCEPT ![c.limiter].batch = @ + Token]
    /\ UNCHANGED <<now, globalRateLimiter, mu, limiters, br, budget, done, passed,
                   legacy, world>>

GlobalTryAcquire(c) ==
    /\ c.pc = "gc" /\ ~c.wait
    /\ IF ChanSendReady(globalConcurrent)
       THEN /\ globalConcurrent' = ChanSend(globalConcurrent)
            /\ calls' = Replace(c, AfterGlobalSlot(c))
       ELSE /\ globalConcurrent' = globalConcurrent
            /\ calls' = Replace(c, Ret(c, "globalConcurrentRL"))
    /\ UNCHANGED <<now, globalRateLimiter, mu, limiters, trackers, br, budget, done, passed,
                   legacy, world>>

\* a blocked call gets the slot
GlobalAcquire(c) ==
    /\ c.pc = "gc" /\ c.wait
    /\ ChanSendReady(globalConcurrent)
    /\ globalConcurrent' = ChanSend(globalConcurrent)
    /\ calls' = Replace(c, AfterGlobalSlot(c))
    /\ UNCHANGED <<now, globalRateLimiter, mu, limiters, trackers, br, budget, done, passed,
                   legacy, world>>

\* case <-ctx.Done(): return nil, ctx.Err()
GlobalCancelled(c) ==
    /\ c.pc = "gc" /\ c.wait /\ c.op = "download"
    /\ c.ctxDone
    /\ calls' = Replace(c, Ret(c, "ctxErr"))
    /\ UNCHANGED <<now, globalConcurrent, globalRateLimiter, mu, limiters, trackers,
                   br, budget, done, passed,
                   legacy, world>>

\* ------------------------------------------------ 2. global rate limiter
GlobalAllowGoesOn(c) ==
    /\ c.pc = "gr" /\ ~c.wait
    /\ IF AllowOk(globalRateLimiter)
       THEN /\ globalRateLimiter' = globalRateLimiter - Token
            /\ calls' = Replace(c, Through(c, "globalRateLimiter", "lim"))
       ELSE /\ globalRateLimiter' = globalRateLimiter
            /\ calls' = Replace(c, [c EXCEPT !.pc = "lim"])
    /\ UNCHANGED <<now, globalConcurrent, mu, limiters, trackers, br, budget, done, passed,
                   legacy, world>>

GlobalAllowTakesNothing(c) ==
    /\ c.pc = "gr" /\ ~c.wait
    /\ IF AllowOk(globalRateLimiter)
       THEN /\ globalRateLimiter' = globalRateLimiter
            /\ calls' = Replace(c, Through(c, "globalRateLimiter", "lim"))
       ELSE /\ globalRateLimiter' = globalRateLimiter
            /\ calls' = Replace(c, Ret(c, "globalGeneralRL"))
    /\ UNCHANGED <<now, globalConcurrent, mu, limiters, trackers, br, budget, done, passed,
                   legacy, world>>

GlobalAllow(c) ==
    /\ c.pc = "gr" /\ ~c.wait
    /\ IF AllowOk(globalRateLimiter)
       THEN /\ globalRateLimiter' = globalRateLimiter - Token
            /\ calls' = Replace(c, Through(c, "globalRateLimiter", "lim"))
       ELSE /\ globalRateLimiter' = globalRateLimiter
            /\ calls' = Replace(c, Ret(c, "globalGeneralRL"))
    /\ UNCHANGED <<now, globalConcurrent, mu, limiters, trackers, br, budget, done, passed,
                   legacy, world>>

GlobalWaitFailsFast(c) ==
    /\ c.pc = "gr" /\ c.wait
    /\ IF AllowOk(globalRateLimiter)
       THEN /\ globalRateLimiter' = globalRateLimiter - Token
            /\ calls' = Replace(c, Through(c, "globalRateLimiter", "lim"))
       ELSE /\ globalRateLimiter' = globalRateLimiter
            /\ calls' = Replace(c, Ret(c, "globalGeneralRL"))
    /\ UNCHANGED <<now, globalConcurrent, mu, limiters, trackers, br, budget, done, passed,
                   legacy, world>>

\* Wait(ctx) begins: an error when ctx is done, else a token is reserved
GlobalWaitLetsGo(c) ==
    /\ c.pc = "gr" /\ c.wait
    /\ ChanRecvReady(globalConcurrent)
    /\ globalConcurrent' = ChanRecv(globalConcurrent)
    /\ IF c.ctxDone
       THEN /\ globalRateLimiter' = globalRateLimiter
            /\ calls' = Replace(c, Ret([c EXCEPT !.defers = <<>>], "waitErr"))
       ELSE /\ globalRateLimiter' = globalRateLimiter - Token
            /\ calls' = Replace(c, AfterReserve([c EXCEPT !.defers = <<>>],
                                                globalRateLimiter - Token,
                                                GlobalPerMinute, "globalRateLimiter",
                                                "lim", "grWait"))
    /\ UNCHANGED <<now, mu, limiters, trackers, br, budget, done, passed,
                   legacy, world>>

GlobalWait(c) ==
    /\ c.pc = "gr" /\ c.wait
    /\ IF c.ctxDone
       THEN /\ globalRateLimiter' = globalRateLimiter
            /\ calls' = Replace(c, Ret(c, "waitErr"))
       ELSE /\ globalRateLimiter' = globalRateLimiter - Token
            /\ calls' = Replace(c, AfterReserve(c, globalRateLimiter - Token,
                                                GlobalPerMinute, "globalRateLimiter",
                                                "lim", "grWait"))
    /\ UNCHANGED <<now, globalConcurrent, mu, limiters, trackers, br, budget, done, passed,
                   legacy, world>>

\* Wait(ctx) ends: the reserved token is due, or ctx is done first
GlobalWaitEnd(c) ==
    /\ c.pc = "grWait"
    /\ \/ /\ now >= c.wake
          /\ globalRateLimiter' = globalRateLimiter
          /\ calls' = Replace(c, Through(c, "globalRateLimiter", "lim"))
       \/ /\ c.ctxDone
          /\ globalRateLimiter' = CancelReservation(globalRateLimiter, c.wake,
                                                    GlobalPerMinute, GlobalBurst)
          /\ calls' = Replace(c, Ret([c EXCEPT !.wake = 0], "waitErr"))
    /\ UNCHANGED <<now, globalConcurrent, mu, limiters, trackers, br, budget, done, passed,
                   legacy, world>>

\* ---------------------------------------------------- 3. getRealmLimiter
\* the key of m.limiters under which a realm's tracker is kept
RegistryKeySame(realm) == "A"

RegistryKey(realm) == realm

\* Called by req at pc "lim" and by batch at pc "blim".
\* m.mu.Lock() and the lookup in m.limiters
GetRealmLimiterLock(c) ==
    /\ c.pc \in {"lim", "blim"}
    /\ MutexFree(mu)
    /\ mu' = TRUE
    /\ calls' = Replace(c, [c EXCEPT !.pc = IF c.pc = "lim" THEN "limLocked" ELSE "blimLocked",
                                     !.exists = limiters[RegistryKey(c.realm)] # 0,
                                     !.limiter = limiters[RegistryKey(c.realm)]])
    /\ UNCHANGED <<now, globalConcurrent, globalRateLimiter, limiters, trackers,
                   br, budget, done, passed,
                   legacy, world>>

GetRealmLimiterReturnLocked(c) ==
    /\ c.pc \in {"limLocked", "blimLocked"}
    /\ mu' = mu
    /\ LET pcNext == IF c.pc = "limLocked" THEN "rg" ELSE "bw" IN
       IF c.exists
       THEN /\ UNCHANGED <<limiters, trackers>>
            /\ calls' = Replace(c, [c EXCEPT !.pc = pcNext, !.exists = FALSE])
       ELSE /\ trackers' = Append(trackers, NewRealmRateLimiters(c.realm))
            /\ limiters' = [limiters EXCEPT ![RegistryKey(c.realm)] = Len(trackers) + 1]
            /\ calls' = Replace(c, [c EXCEPT !.pc = pcNext, !.exists = FALSE,
                                             !.limiter = Len(trackers) + 1])
    /\ UNCHANGED <<now, globalConcurrent, globalRateLimiter, br, budget, done, passed,
                   legacy, world>>

\* the rest of the critical section and the deferred m.mu.Unlock()
GetRealmLimiterReturn(c) ==
    /\ c.pc \in {"limLocked", "blimLocked"}
    /\ mu' = FALSE
    /\ LET pcNext == IF c.pc = "limLocked" THEN "rg" ELSE "bw" IN
       IF c.exists
       THEN /\ UNCHANGED <<limiters, trackers>>
            /\ calls' = Replace(c, [c EXCEPT !.pc = pcNext, !.exists = FALSE])
       ELSE /\ trackers' = Append(trackers, NewRealmRateLimiters(c.realm))
            /\ limiters' = [limiters EXCEPT ![RegistryKey(c.realm)] = Len(trackers) + 1]
            /\ calls' = Replace(c, [c EXCEPT !.pc = pcNext, !.exists = FALSE,
                                             !.limiter = Len(trackers) + 1])
    /\ UNCHANGED <<now, globalConcurrent, globalRateLimiter, br, budget, done, passed,
                   legacy, world>>

\* ------------------------------------------------ 4. realm general limiter
\* the observer counts a call that did not wait for its token
Pass(realm, n) == [passed EXCEPT ![realm][now] = @ + n]

RealmAllowBlocks(c) ==
    /\ c.pc = "rg" /\ ~c.wait
    /\ AllowOk(trackers[c.limiter].general)
    /\ trackers' = [trackers EXCEPT ![c.limiter].general = @ - Token]
    /\ calls' = Replace(c, Through(c, "general", "rc"))
    /\ passed' = Pass(c.realm, 1)
    /\ UNCHANGED <<now, globalConcurrent, globalRateLimiter, mu, limiters, br, budget, done,
                   legacy, world>>

RealmAllowUnchecked(c) ==
    /\ c.pc = "rg" /\ ~c.wait
    /\ trackers' = [trackers EXCEPT ![c.limiter].general = @ - Token]
    /\ calls' = Replace(c, Through(c, "general", "rc"))
    /\ passed' = Pass(c.realm, 1)
    /\ UNCHANGED <<now, globalConcurrent, globalRateLimiter, mu, limiters, br, budget, done,
                   legacy, world>>

RealmAllowRefunds(c) ==
    /\ c.pc = "rg" /\ ~c.wait
    /\ IF AllowOk(trackers[c.limiter].general)
       THEN /\ trackers' = [trackers EXCEPT ![c.limiter].general = @ - Token]
            /\ calls' = Replace(c, Through(c, "general", "rc"))
            /\ passed' = Pass(c.realm, 1)
            /\ globalRateLimiter' = globalRateLimiter
       ELSE /\ trackers' = trackers
            /\ calls' = Replace(c, Ret(c, "realmGeneralRL"))
            /\ passed' = passed
            /\ globalRateLimiter' = globalRateLimiter + Token
    /\ UNCHANGED <<now, globalConcurrent, mu, limiters, br, budget, done,
                   legacy, world>>

RealmAllow(c) ==
    /\ c.pc = "rg" /\ ~c.wait
    /\ IF AllowOk(trackers[c.limiter].general)
       THEN /\ trackers' = [trackers EXCEPT ![c.limiter].general = @ - Token]
            /\ calls' = Replace(c, Through(c, "general", "rc"))
            /\ passed' = Pass(c.realm, 1)
       ELSE /\ trackers' = trackers
            /\ calls' = Replace(c, Ret(c, "realmGeneralRL"))
            /\ passed' = passed
    /\ UNCHANGED <<now, globalConcurrent, globalRateLimiter, mu, limiters, br, budget, done,
                   legacy, world>>

RealmWait(c) ==
    /\ c.pc = "rg" /\ c.wait
    /\ IF c.ctxDone
       THEN /\ trackers' = trackers
            /\ calls' = Replace(c, Ret(c, "waitErr"))
       ELSE /\ trackers' = [trackers EXCEPT ![c.limiter].general = @ - Token]
            /\ calls' = Replace(c, AfterReserve(c, trackers[c.limiter].general - Token,
                                                GeneralPerMinute, "general", "rc", "rgWait"))
    /\ UNCHANGED <<now, globalConcurrent, globalRateLimiter, mu, limiters, br, budget,
                   done, passed,
                   legacy, world>>

RealmWaitEnd(c) ==
    /\ c.pc = "rgWait"
    /\ \/ /\ now >= c.wake
          /\ trackers' = trackers
          /\ calls' = Replace(c, Through(c, "general", "rc"))
       \/ /\ c.ctxDone
          /\ trackers' = [trackers EXCEPT ![c.limiter].general =
                              CancelReservation(@, c.wake, GeneralPerMinute, GeneralBurst)]
          /\ calls' = Replace(c, Ret([c EXCEPT !.wake = 0], "waitErr"))
    /\ UNCHANGED <<now, globalConcurrent, globalRateLimiter, mu, limiters, br, budget,
                   done, passed,
                   legacy, world>>

\* --------------------------------------------- 5. realm concurrency slot
\* The request is built right after the slot is taken; build says how that
\* goes: "sent" (the exchange begins) or "buildErr" (json.Marshal or
\* http.NewRequestWithContext fails and the call returns).
AfterRealmSlot(c, build) ==
    LET d == [Through(c, "concurrent", "http") EXCEPT !.defers = <<"r">> \o @] IN
    IF build = "sent" THEN [d EXCEPT !.sent = TRUE]
    ELSE Ret(d, "buildErr")

RealmTryAcquire(c, build) ==
    /\ c.pc = "rc" /\ ~c.wait
    /\ IF ChanSendReady(trackers[c.limiter].concurrent)
       THEN /\ trackers' = [trackers EXCEPT ![c.limiter].concurrent = ChanSend(@)]
            /\ calls' = Replace(c, AfterRealmSlot(c, build))
       ELSE /\ trackers' = trackers
            /\ calls' = Replace(c, Ret(c, "realmConcurrentRL"))
    /\ UNCHANGED <<now, globalConcurrent, globalRateLimiter, mu, limiters, br, budget,
                   done, passed,
                   legacy, world>>

RealmAcquire(c, build) ==
    /\ c.pc = "rc" /\ c.wait
    /\ ChanSendReady(trackers[c.limiter].concurrent)
    /\ trackers' = [trackers EXCEPT ![c.limiter].concurrent = ChanSend(@)]
    /\ calls' = Replace(c, AfterRealmSlot(c, build))
    /\ UNCHANGED <<now, globalConcurrent, globalRateLimiter, mu, limiters, br, budget,
                   done, passed,
                   legacy, world>>

RealmCancelled(c) ==
    /\ c.pc = "rc" /\ c.wait /\ c.op = "download"
    /\ c.ctxDone
    /\ calls' = Replace(c, Ret(c, "ctxErr"))
    /\ UNCHANGED <<now, globalConcurrent, globalRateLimiter, mu, limiters, trackers,
                   br, budget, done, passed,
                   legacy, world>>

\* ------------------------------------------------------ the HTTP exchange
\* c.Client.Do(req) returns: out is what the transport and the service did.
\* A cancellation during the exchange is the outcome "transportErr".  The
\* request carries the call's context: when that is done before Do, the
\* transport sends nothing and Do returns the context's error.
HttpResponseIgnoresCtx(c, out) ==
    /\ c.pc = "http" /\ ~c.slow /\ c.op \in {"req17", "download"}
    /\ calls' = Replace(c, Ret([c EXCEPT !.status = StatusOf(out),
                                          !.decoded = StatusOf(out) = 200],
                                Classify(c.op, out)))
    /\ UNCHANGED <<now, globalConcurrent, globalRateLimiter, mu, limiters, trackers,
                   br, budget, done, passed,
                   legacy, world>>

HttpResponse(c, out) ==
    /\ c.pc = "http" /\ ~c.slow /\ c.op \in {"req17", "download"}
    /\ c.ctxDone => out = "transportErr"
    /\ calls' = Replace(c, Ret([c EXCEPT !.status = StatusOf(out),
                                          !.decoded = StatusOf(out) = 200],
                                Classify(c.op, out)))
    /\ UNCHANGED <<now, globalConcurrent, globalRateLimiter, mu, limiters, trackers,
                   br, budget, done, passed,
                   legacy, world>>

\* The caller cancels the context of a call that has not yet built its
\* request.  A call that waits looks at the context at its gates, every call
\* hands it to the transport with the request.
Cancel(c) ==
    /\ ~c.ctxDone
    /\ c.pc \in {"gc", "gr", "grWait", "rg", "rgWait", "rc", "bw", "bwWait"}
    /\ calls' = Replace(c, [c EXCEPT !.ctxDone = TRUE])
    /\ UNCHANGED <<now, globalConcurrent, globalRateLimiter, mu, limiters, trackers,
                   br, budget, done, passed,
                   legacy, world>>

\* ------------------------------------------------------------- returning
Tally(c, tally) == IF tally THEN [done EXCEPT ![c.result] = @ + 1] ELSE done

\* The deferred releases run last in, first out.  After the last one the call
\* is gone, unless BatchRequest made it and takes its result.
RunDeferFifo(c, tally) ==
    /\ c.pc = "ret" /\ c.defers # <<>>
    /\ LET n == Len(c.defers) IN
       /\ IF c.defers[n] = "r"
          THEN /\ ChanRecvReady(trackers[c.limiter].concurrent)
               /\ trackers' = [trackers EXCEPT ![c.limiter].concurrent = ChanRecv(@)]
               /\ UNCHANGED globalConcurrent
          ELSE /\ ChanRecvReady(globalConcurrent)
               /\ globalConcurrent' = ChanRecv(globalConcurrent)
               /\ UNCHANGED trackers
       /\ IF n = 1 /\ c.op # "batch17"
          THEN /\ calls' = calls (-) SetToBag({c})
               /\ done' = Tally(c, tally)
          ELSE /\ calls' = Replace(c, [c EXCEPT !.defers = SubSeq(@, 1, n - 1)])
               /\ done' = done
    /\ UNCHANGED <<now, globalRateLimiter, mu, limiters, br, budget, passed,
                   legacy, world>>

RunDefer(c, tally) ==
    /\ c.pc = "ret" /\ c.defers # <<>>
    /\ IF Head(c.defers) = "r"
       THEN /\ ChanRecvReady(trackers[c.limiter].concurrent)
            /\ trackers' = [trackers EXCEPT ![c.limiter].concurrent = ChanRecv(@)]
            /\ UNCHANGED globalConcurrent
       ELSE /\ ChanRecvReady(globalConcurrent)
            /\ globalConcurrent' = ChanRecv(globalConcurrent)
            /\ UNCHANGED trackers
    /\ IF Tail(c.defers) = <<>> /\ c.op # "batch17"
       THEN /\ calls' = calls (-) SetToBag({c})
            /\ done' = Tally(c, tally)
       ELSE /\ calls' = Replace(c, [c EXCEPT !.defers = Tail(@)])
            /\ done' = done
    /\ UNCHANGED <<now, globalRateLimiter, mu, limiters, br, budget, passed,
                   legacy, world>>

\* a call that returns with nothing deferred
Return(c, tally) ==
    /\ c.pc = "ret" /\ c.defers = <<>> /\ c.op \notin {"batch17", "batch16"}
    /\ calls' = calls (-) SetToBag({c})
    /\ done' = Tally(c, tally)
    /\ UNCHANGED <<now, globalConcurrent, globalRateLimiter, mu, limiters, trackers,
                   br, budget, passed,
                   legacy, world>>

\* ------------------------------------------------------------------ time
TickUntil(max) ==
    /\ now < max
    /\ now' = now + 1
    /\ globalRateLimiter' = Refill(globalRateLimiter, GlobalPerMinute, GlobalBurst)
    /\ trackers' = [i \in DOMAIN trackers |->
                      [trackers[i] EXCEPT
                         !.general = Refill(@, GeneralPerMinute, GeneralBurst),
                         !.batch = Refill(@, BatchPerMinute, BatchBurst)]]
    /\ UNCHANGED <<globalConcurrent, mu, limiters, calls, br, budget, done, passed,
                   legacy, world>>

Tick == TickUntil(MaxTime)

\* ------------------------------------------------------------ BatchRequest
\* the top of the loop body: the next chunk is cut and c.batch is called
BatchIterateFromFirst(b) ==
    LET end == Min(ChunkSize, Len(b.items)) IN
    [b EXCEPT !.pc = "call", !.batch = SubSeq(b.items, 1, end), !.res = <<>>]

BatchIterate(b) ==
    LET end == Min(b.start + ChunkSize, Len(b.items)) IN
    [b EXCEPT !.pc = "call", !.batch = SubSeq(b.items, b.start + 1, end), !.res = <<>>]

BatchCall(realm) == [NewCall("batch17", realm, FALSE) EXCEPT !.pc = "blim"]

\* BatchRequest(params, batchRequests) with n items, up to its first c.batch
BatchRequest(n, realm) ==
    /\ br.pc = "idle"
    /\ LET b == [br EXCEPT !.realm = realm, !.items = [i \in 1..n |-> i]] IN
       IF n = 0
       THEN /\ br' = [b EXCEPT !.pc = "done"]
            /\ calls' = calls
       ELSE /\ br' = BatchIterate(b)
            /\ calls' = calls (+) SetToBag({BatchCall(realm)})
    /\ UNCHANGED <<now, globalConcurrent, globalRateLimiter, mu, limiters, trackers,
                   budget, done, passed,
                   legacy, world>>

\* Client.batch: limiter.batch.Wait(params.Ctx) begins
BatchWait(c) ==
    /\ c.pc = "bw"
    /\ IF c.ctxDone
       THEN /\ trackers' = trackers
            /\ calls' = Replace(c, Ret(c, "waitErr"))
       ELSE /\ trackers' = [trackers EXCEPT ![c.limiter].batch = @ - Token]
            /\ calls' = Replace(c, AfterReserve(c, trackers[c.limiter].batch - Token,
                                                BatchPerMinute, "batch", "gc", "bwWait"))
    /\ UNCHANGED <<now, globalConcurrent, globalRateLimiter, mu, limiters, br, budget,
                   done, passed,
                   legacy, world>>

\* limiter.batch.Wait(params.Ctx) ends
BatchWaitEnd(c) ==
    /\ c.pc = "bwWait"
    /\ \/ /\ now >= c.wake
          /\ trackers' = trackers
          /\ calls' = Replace(c, Through(c, "batch", "gc"))
       \/ /\ c.ctxDone
          /\ trackers' = [trackers EXCEPT ![c.limiter].batch =
                              CancelReservation(@, c.wake, BatchPerMinute, BatchBurst)]
          /\ calls' = Replace(c, Ret([c EXCEPT !.wake = 0], "waitErr"))
    /\ UNCHANGED <<now, globalConcurrent, globalRateLimiter, mu, limiters, br, budget,
                   done, passed,
                   legacy, world>>

Reverse(s) == [i \in 1..Len(s) |-> s[Len(s) + 1 - i]]

\* the service's BatchItemResponse array for a payload: one response an item,
\* in the order of the items or in the opposite order
Respond(payload, order) ==
    LET rs == [i \in 1..Len(payload) |-> [bId |-> payload[i]]] IN
    IF order = "same" THEN rs ELSE Reverse(rs)

\* the exchange of a batch call: on 200 the body is decoded into res
BatchHttpResponse(c, out, order) ==
    /\ c.pc = "http" /\ c.op = "batch17"
    /\ c.ctxDone => out = "transportErr"
    /\ calls' = Replace(c, Ret([c EXCEPT !.status = StatusOf(out),
                                          !.decoded = StatusOf(out) = 200],
                                Classify(c.op, out)))
    /\ br' = [br EXCEPT !.payloads = Append(@, br.batch),
                        !.res = IF out = "s200" THEN Respond(br.batch, order) ELSE <<>>,
                        !.responses = IF out = "s200"
                                      THEN Append(@, Respond(br.batch, order)) ELSE @]
    /\ UNCHANGED <<now, globalConcurrent, globalRateLimiter, mu, limiters, trackers,
                   budget, done, passed,
                   legacy, world>>

BatchCallReturnsPartial(c) ==
    /\ c.op = "batch17" /\ c.pc = "ret" /\ c.defers = <<>>
    /\ br.pc = "call"
    /\ IF c.result # "ok"
       THEN /\ br' = [br EXCEPT !.pc = "done", !.err = TRUE]
            /\ calls' = calls (-) SetToBag({c})
       ELSE LET b == [br EXCEPT !.allResponses = @ \o br.res,
                                !.start = @ + ChunkSize] IN
            IF b.start < Len(b.items)
            THEN /\ br' = BatchIterate(b)
                 /\ calls' = Replace(c, BatchCall(br.realm))
            ELSE /\ br' = [b EXCEPT !.pc = "done"]
                 /\ calls' = calls (-) SetToBag({c})
    /\ UNCHANGED <<now, globalConcurrent, globalRateLimiter, mu, limiters, trackers,
                   budget, done, passed,
                   legacy, world>>

\* c.batch returns to BatchRequest: the rest of the loop body, and either the
\* next c.batch or the return
BatchCallReturns(c) ==
    /\ c.op = "batch17" /\ c.pc = "ret" /\ c.defers = <<>>
    /\ br.pc = "call"
    /\ IF c.result # "ok"
       THEN /\ br' = [br EXCEPT !.pc = "done", !.err = TRUE, !.allResponses = <<>>]
            /\ calls' = calls (-) SetToBag({c})
       ELSE LET b == [br EXCEPT !.allResponses = @ \o br.res,
                                !.start = @ + ChunkSize] IN
            IF b.start < Len(b.items)
            THEN /\ br' = BatchIterate(b)
                 /\ calls' = Replace(c, BatchCall(br.realm))
            ELSE /\ br' = [b EXCEPT !.pc = "done"]
                 /\ calls' = calls (-) SetToBag({c})
    /\ UNCHANGED <<now, globalConcurrent, globalRateLimiter, mu, limiters, trackers,
                   budget, done, passed,
                   legacy, world>>

\* ------------------------------------------------------------- preload
\* n sends on a channel, one after the other
ChanSendN(ch, n) == [ch EXCEPT !.len = @ + n]

\* n tokens taken by Allow(), one after the other
TakeTokens(tokens, n) == tokens - n * Token

\* the gates of req in the order of its code
GateOrder == <<"globalConcurrent", "globalRateLimiter", "general", "concurrent">>

\* the tracker getRealmLimiter returns for the realm, made if not there
LookedUp(realm) ==
    IF limiters[RegistryKey(realm)] # 0 THEN trackers[limiters[RegistryKey(realm)]]
    ELSE NewRealmRateLimiters(realm)

\* Preload calls of req on one realm, made one after the other, each run up
\* to its exchange before the next is made; possible when every gate lets
\* that many through.  Their exchanges are slow: no response comes while the
\* model watches.
Preloaded(realm) ==
    /\ Count({c \in InFlight : c.slow}) = 0 /\ Preload > 0
    /\ MutexFree(mu)
    /\ ChanSendReady(ChanSendN(globalConcurrent, Preload - 1))
    /\ AllowOk(TakeTokens(globalRateLimiter, Preload - 1))
    /\ AllowOk(TakeTokens(LookedUp(realm).general, Preload - 1))
    /\ ChanSendReady(ChanSendN(LookedUp(realm).concurrent, Preload - 1))
    /\ globalConcurrent' = ChanSendN(globalConcurrent, Preload)
    /\ globalRateLimiter' = TakeTokens(globalRateLimiter, Preload)
    /\ LET id == IF limiters[RegistryKey(realm)] # 0 THEN limiters[RegistryKey(realm)]
                 ELSE Len(trackers) + 1
           t == [LookedUp(realm) EXCEPT !.general = TakeTokens(@, Preload),
                                        !.concurrent = ChanSendN(@, Preload)]
       IN  /\ trackers' = [i \in DOMAIN trackers \cup {id} |->
                              IF i = id THEN t ELSE trackers[i]]
           /\ limiters' = [limiters EXCEPT ![RegistryKey(realm)] = id]
           /\ calls' = calls (+) [c \in {[NewCall("req17", realm, FALSE) EXCEPT
                                            !.pc = "http", !.defers = <<"r", "g">>,
                                            !.limiter = id, !.gates = GateOrder,
                                            !.sent = TRUE,
                                            !.slow = TRUE]} |-> Preload]
    /\ passed' = Pass(realm, Preload)
    /\ UNCHANGED <<now, mu, br, budget, done,
                   legacy, world>>

\* --------------------------------------------------------- specifications
Modes == {<<"req17", FALSE>>, <<"download", FALSE>>, <<"download", TRUE>>}

Builds == {"sent", "buildErr"}

Orders == {"same", "reversed"}

\* Spec: a few calls of every kind, on a new client or on one that already
\* has Preload exchanges outstanding.
Next ==
    \/ Preloaded("A")
    \/ \E m \in Modes, r \in Realms : Start(m[1], r, m[2])
    \/ \E c \in InFlight : GlobalAcquire(c)
    \/ \E c \in InFlight : GlobalCancelled(c)
    \/ \E c \in InFlight : GlobalAllow(c)
    \/ \E c \in InFlight : GlobalWait(c)
    \/ \E c \in InFlight : GlobalWaitEnd(c)
    \/ \E c \in InFlight : GetRealmLimiterLock(c)
    \/ \E c \in InFlight : GetRealmLimiterReturn(c)
    \/ \E c \in InFlight : RealmAllow(c)
    \/ \E c \in InFlight : RealmWait(c)
    \/ \E c \in InFlight : RealmWaitEnd(c)
    \/ \E c \in InFlight, b \in Builds : RealmTryAcquire(c, b)
    \/ \E c \in InFlight, b \in Builds : RealmAcquire(c, b)
    \/ \E c \in InFlight : RealmCancelled(c)
    \/ \E c \in InFlight, o \in Outcomes : HttpResponse(c, o)
    \/ \E c \in InFlight : Cancel(c)
    \/ \E c \in InFlight : RunDefer(c, FALSE)
    \/ \E c \in InFlight : Return(c, FALSE)
    \/ Tick

Spec == Init /\ [][Next]_vars

\* SpecBurst: many calls of req on one realm of a new client, every exchange
\* answered 200; an observer tallies the results and the limiter's passes.
InitBurst == NewClient(MakeChan(GlobalConcurrentCap), NewLimiter(GlobalBurst), MaxBurstCalls)

NextBurst ==
    \/ Start("req17", "A", FALSE)
    \/ \E c \in InFlight : GlobalAllow(c)
    \/ \E c \in InFlight : GetRealmLimiterLock(c)
    \/ \E c \in InFlight : GetRealmLimiterReturn(c)
    \/ \E c \in InFlight : RealmAllow(c)
    \/ \E c \in InFlight : RealmTryAcquire(c, "sent")
    \/ \E c \in InFlight : HttpResponse(c, "s200")
    \/ \E c \in InFlight : RunDefer(c, TRUE)
    \/ \E c \in InFlight : Return(c, TRUE)

SpecBurst == InitBurst /\ [][NextBurst]_vars

\* SpecStall: the calls of SpecBurst while time passes
NextStall ==
    \/ NextBurst
    \/ Tick

SpecStall == InitBurst /\ [][NextStall]_vars

\* Spec15: the client of part_015.  NewClient sets no globalConcurrent, so
\* the field is a nil channel, and the revision has no global rate limiter.
\* A send on a nil channel never proceeds: a call gets no further than the
\* first line of req, and all there is to see is calls and cancellations.
Init15 == NewClient(NilChan, 0, MaxBlockedCalls)

Next15 ==
    \/ \E r \in Realms : Start("req15", r, TRUE)
    \/ \E c \in InFlight : Cancel(c)

Spec15 == Init15 /\ [][Next15]_vars

\* Spec15 with a scheduler that lets a call that can take the global slot
\* take it
Spec15Live == Init15 /\ [][Next15]_vars /\ WF_vars(\E c \in InFlight : GlobalAcquire(c))

\* SpecBatch: one BatchRequest on a new client.
NextBatch ==
    \/ \E n \in 0..MaxItems : BatchRequest(n, "A")
    \/ \E c \in InFlight : GetRealmLimiterLock(c)
    \/ \E c \in InFlight : GetRealmLimiterReturn(c)
    \/ \E c \in InFlight : BatchWait(c)
    \/ \E c \in InFlight : Cancel(c)
    \/ \E c \in InFlight : GlobalTryAcquire(c)
    \/ \E c \in InFlight : GlobalAllow(c)
    \/ \E c \in InFlight : RealmAllow(c)
    \/ \E c \in InFlight, b \in Builds : RealmTryAcquire(c, b)
    \/ \E c \in InFlight, o \in Outcomes, ord \in Orders : BatchHttpResponse(c, o, ord)
    \/ \E c \in InFlight : RunDefer(c, FALSE)
    \/ \E c \in InFlight : BatchCallReturns(c)

SpecBatch == Init /\ [][NextBatch]_vars

\* ------------------------------------------------- the legacy revision
\* Client.req of part_016: no gate, only the throttled flag, looked at when
\* the call begins.  The request is built and sent in the same step.
LegacyStartedWhen(flag, op, build) ==
    LET c == NewCall(op, "A", FALSE) IN
    IF flag THEN Ret(c, "throttledErr")
    ELSE IF build = "sent" THEN [c EXCEPT !.pc = "http", !.sent = TRUE]
    ELSE Ret(c, "buildErr")

\* the call as c.throttled has it begin
LegacyStarted(op, build) == LegacyStartedWhen(throttled, op, build)

LegacyReq(build) ==
    /\ budget > 0
    /\ budget' = budget - 1
    /\ calls' = calls (+) SetToBag({LegacyStarted("req16", build)})
    /\ UNCHANGED <<now, globalConcurrent, globalRateLimiter, mu, limiters, trackers,
                   br, done, passed, legacy, world>>

\* the result of req of part_016 for an outcome of the exchange; decodes
\* says whether the body of a 429 decodes into the response object.  After a
\* 429 the switch falls through to the decoding.
LegacyClassify(out, decodes) ==
    CASE out = "transportErr" -> "transportErr"
      [] out = "s200" -> "ok"
      [] out = "s200bad" -> "decodeErr"
      [] out = "s429" -> IF decodes THEN "ok" ELSE "decodeErr"
      [] OTHER -> "failure"

\* the call after c.Client.Do returned and the response was handled
LegacyResponded(c, out, decodes) ==
    Ret([c EXCEPT !.status = StatusOf(out),
                  !.decoded = StatusOf(out) \in {200, 429}],
        LegacyClassify(out, decodes))

\* a cool-down goroutine is started: it sleeps CoolDown minutes
TimerStarted(ts) == [ts EXCEPT ![CoolDown * TicksPerMinute] = @ + 1]

LegacyHttpResponse(c, out, decodes) ==
    /\ c.pc = "http" /\ c.op = "req16"
    /\ calls' = Replace(c, LegacyResponded(c, out, decodes))
    /\ throttled' = IF out = "s429" THEN TRUE ELSE throttled
    /\ timers' = IF out = "s429" THEN TimerStarted(timers) ELSE timers
    /\ UNCHANGED <<now, globalConcurrent, globalRateLimiter, mu, limiters, trackers,
                   br, budget, done, passed, world>>

\* a cool-down goroutine wakes and clears the flag
TimerFiresKeepsFlag ==
    /\ timers[0] > 0
    /\ timers' = [timers EXCEPT ![0] = @ - 1]
    /\ throttled' = throttled
    /\ UNCHANGED <<now, globalConcurrent, globalRateLimiter, mu, limiters, trackers,
                   calls, br, budget, done, passed, world>>

TimerFires ==
    /\ timers[0] > 0
    /\ timers' = [timers EXCEPT ![0] = @ - 1]
    /\ throttled' = FALSE
    /\ UNCHANGED <<now, globalConcurrent, globalRateLimiter, mu, limiters, trackers,
                   calls, br, budget, done, passed, world>>

\* a tick of 1/TicksPerMinute minute passes for the sleeping goroutines
LegacyTick ==
    /\ \E k \in DOMAIN timers : k > 0 /\ timers[k] > 0
    /\ timers' = [k \in DOMAIN timers |->
                    IF k = 0 THEN timers[0] + timers[1]
                    ELSE IF k + 1 \in DOMAIN timers THEN timers[k + 1] ELSE 0]
    /\ UNCHANGED <<now, globalConcurrent, globalRateLimiter, mu, limiters, trackers,
                   calls, br, budget, done, passed, throttled, world>>

\* BatchRequest of part_018 with n items, up to its first c.req
LegacyBatchRequest(n, build) ==
    /\ br.pc = "idle"
    /\ LET b == [br EXCEPT !.items = [i \in 1..n |-> i]] IN
       IF n = 0
       THEN /\ br' = [b EXCEPT !.pc = "done"]
            /\ calls' = calls
       ELSE /\ br' = BatchIterate(b)
            /\ calls' = calls (+) SetToBag({LegacyStarted("batch16", build)})
    /\ UNCHANGED <<now, globalConcurrent, globalRateLimiter, mu, limiters, trackers,
                   budget, done, passed, legacy, world>>

\* the exchange of a call that BatchRequest of part_018 made
LegacyBatchHttpResponse(c, out, decodes, order) ==
    /\ c.pc = "http" /\ c.op = "batch16"
    /\ calls' = Replace(c, LegacyResponded(c, out, decodes))
    /\ throttled' = IF out = "s429" THEN TRUE ELSE throttled
    /\ timers' = IF out = "s429" THEN TimerStarted(timers) ELSE timers
    /\ br' = [br EXCEPT !.payloads = Append(@, br.batch),
                        !.res = IF out = "s200" THEN Respond(br.batch, order) ELSE <<>>,
                        !.responses = IF LegacyClassify(out, decodes) = "ok"
                                      THEN Append(@, IF out = "s200"
                                                     THEN Respond(br.batch, order)
                                                     ELSE <<>>)
                                      ELSE @]
    /\ UNCHANGED <<now, globalConcurrent, globalRateLimiter, mu, limiters, trackers,
                   budget, done, passed, world>>

\* c.req returns to BatchRequest of part_018
LegacyBatchCallReturns(c, build) ==
    /\ c.op = "batch16" /\ c.pc = "ret"
    /\ br.pc = "call"
    /\ IF c.result # "ok"
       THEN /\ br' = [br EXCEPT !.pc = "done", !.err = TRUE, !.allResponses = <<>>]
            /\ calls' = calls (-) SetToBag({c})
       ELSE LET b == [br EXCEPT !.allResponses = @ \o br.res,
                                !.start = @ + ChunkSize] IN
            IF b.start < Len(b.items)
            THEN /\ br' = BatchIterate(b)
                 /\ calls' = Replace(c, LegacyStarted("batch16", build))
            ELSE /\ br' = [b EXCEPT !.pc = "done"]
                 /\ calls' = calls (-) SetToBag({c})
    /\ UNCHANGED <<now, globalConcurrent, globalRateLimiter, mu, limiters, trackers,
                   budget, done, passed, legacy, world>>

\* Spec16: the client of part_016, which has no gates.  The cool-down
\* goroutines are scheduled fairly.
Init16 == NewClient(NilChan, 0, MaxLegacyCalls)

Next16 ==
    \/ \E b \in Builds : LegacyReq(b)
    \/ \E c \in InFlight, o \in Outcomes, d \in BOOLEAN : LegacyHttpResponse(c, o, d)
    \/ \E c \in InFlight : c.op = "req16" /\ Return(c, FALSE)
    \/ \E n \in 0..MaxLegacyItems, b \in Builds : LegacyBatchRequest(n, b)
    \/ \E c \in InFlight, o \in Outcomes, d \in BOOLEAN, ord \in Orders :
          LegacyBatchHttpResponse(c, o, d, ord)
    \/ \E c \in InFlight, b \in Builds : LegacyBatchCallReturns(c, b)
    \/ TimerFires
    \/ LegacyTick

Spec16 == Init16 /\ [][Next16]_vars /\ WF_vars(TimerFires) /\ WF_vars(LegacyTick)

\* ------------------------------------------------------ UploadAttachable
\* UploadAttachable builds a multipart request and hands it to c.Client.Do
\* itself.  The request is made without the context.
UploadAttachable(realm, build) ==
    /\ budget > 0
    /\ budget' = budget - 1
    /\ LET c == NewCall("upload", realm, TRUE) IN
       calls' = calls (+) SetToBag({IF build = "sent"
                                    THEN [c EXCEPT !.pc = "http", !.sent = TRUE]
                                    ELSE Ret(c, "buildErr")})
    /\ UNCHANGED <<now, globalConcurrent, globalRateLimiter, mu, limiters, trackers,
                   br, done, passed, legacy, world>>

\* what UploadAttachable returns for an outcome of its exchange
UploadClassify(out) ==
    CASE out = "transportErr" -> "transportErr"
      [] out = "s200" -> "ok"
      [] out = "s200bad" -> "decodeErr"
      [] OTHER -> "failure"

UploadHttpResponse(c, out) ==
    /\ c.pc = "http" /\ c.op = "upload"
    /\ calls' = Replace(c, Ret([c EXCEPT !.status = StatusOf(out),
                                          !.decoded = StatusOf(out) = 200],
                                UploadClassify(out)))
    /\ UNCHANGED <<now, globalConcurrent, globalRateLimiter, mu, limiters, trackers,
                   br, budget, done, passed, legacy, world>>

\* SpecUpload: the calls of Spec and uploads on one client
NextUpload ==
    \/ Next
    \/ \E b \in Builds : UploadAttachable("A", b)
    \/ \E c \in InFlight, o \in Outcomes : UploadHttpResponse(c, o)

SpecUpload == Init /\ [][NextUpload]_vars

\* ------------------------------------------------------ several clients
\* heap holds the objects that NewClient and getRealmLimiter allocate, an
\* object's address being its index; clients holds the addresses of the
\* Client objects that NewClient returned.  A Client object has the fields
\* of the Client structs of part_015 and part_017.
RateLimiterManagerAt(h) == Len(h) + 3

\* as if the manager were one object of the package
RateLimiterManagerShared(h) ==
    IF \E a \in DOMAIN h : h[a].kind = "manager"
    THEN CHOOSE a \in DOMAIN h : h[a].kind = "manager"
    ELSE Len(h) + 3

\* the address of the manager that NewClient stores in the new Client
NewRateLimiterManager(h) == RateLimiterManagerAt(h)

\* the objects NewClient allocates on heap h; the Client is the last
NewClientObjects(h) ==
    <<[kind |-> "chan", ch |-> MakeChan(GlobalConcurrentCap)],
      [kind |-> "limiter", tokens |-> NewLimiter(GlobalBurst)],
      [kind |-> "manager", limiters |-> [r \in Realms |-> 0]],
      [kind |-> "client", throttled |-> FALSE,
       globalConcurrent |-> Len(h) + 1,
       globalRateLimiter |-> Len(h) + 2,
       rateLimiter |-> NewRateLimiterManager(h)]>>

ClientAt(k) == heap[clients[k]]

ManagerOf(k) == heap[ClientAt(k).rateLimiter]

HeapStep ==
    /\ budget > 0
    /\ budget' = budget - 1
    /\ UNCHANGED <<now, globalConcurrent, globalRateLimiter, mu, limiters, trackers,
                   calls, br, done, passed, legacy, clients, find>>

NewClientCall ==
    /\ Len(clients) < MaxClients
    /\ heap' = heap \o NewClientObjects(heap)
    /\ clients' = Append(clients, Len(heap) + 4)
    /\ UNCHANGED <<now, globalConcurrent, globalRateLimiter, mu, limiters, trackers,
                   calls, br, budget, done, passed, legacy, find>>

\* a dispatch on client k takes a slot of c.globalConcurrent
ClientGlobalAcquire(k) ==
    /\ LET a == ClientAt(k).globalConcurrent IN
         /\ ChanSendReady(heap[a].ch)
         /\ heap' = [heap EXCEPT ![a].ch = ChanSend(@)]
    /\ HeapStep

\* a dispatch on client k runs its deferred release of c.globalConcurrent
ClientGlobalRelease(k) ==
    /\ LET a == ClientAt(k).globalConcurrent IN
         /\ ChanRecvReady(heap[a].ch)
         /\ heap' = [heap EXCEPT ![a].ch = ChanRecv(@)]
    /\ HeapStep

\* a dispatch on client k takes a token of c.globalRateLimiter
ClientGlobalAllow(k) ==
    /\ LET a == ClientAt(k).globalRateLimiter IN
         /\ AllowOk(heap[a].tokens)
         /\ heap' = [heap EXCEPT ![a].tokens = @ - Token]
    /\ HeapStep

\* c.rateLimiter.getRealmLimiter(r) of client k makes the tracker of r
ClientGetRealmLimiter(k, r) ==
    /\ LET m == ClientAt(k).rateLimiter IN
         /\ heap[m].limiters[r] = 0
         /\ heap' = Append([heap EXCEPT ![m].limiters[r] = Len(heap) + 1],
                           [kind |-> "tracker", t |-> NewRealmRateLimiters(r)])
    /\ HeapStep

\* a dispatch on client k for realm r takes a token of limiter.general
ClientRealmAllow(k, r) ==
    /\ LET t == ManagerOf(k).limiters[r] IN
         /\ t # 0
         /\ AllowOk(heap[t].t.general)
         /\ heap' = [heap EXCEPT ![t].t.general = @ - Token]
    /\ HeapStep

\* a batch call on client k for realm r takes a token of limiter.batch
ClientBatchAllow(k, r) ==
    /\ LET t == ManagerOf(k).limiters[r] IN
         /\ t # 0
         /\ AllowOk(heap[t].t.batch)
         /\ heap' = [heap EXCEPT ![t].t.batch = @ - Token]
    /\ HeapStep

\* a dispatch on client k for realm r takes a slot of limiter.concurrent
ClientRealmAcquire(k, r) ==
    /\ LET t == ManagerOf(k).limiters[r] IN
         /\ t # 0
         /\ ChanSendReady(heap[t].t.concurrent)
         /\ heap' = [heap EXCEPT ![t].t.concurrent = ChanSend(@)]
    /\ HeapStep

\* a dispatch on client k for realm r runs its deferred release
ClientRealmRelease(k, r) ==
    /\ LET t == ManagerOf(k).limiters[r] IN
         /\ t # 0
         /\ ChanRecvReady(heap[t].t.concurrent)
         /\ heap' = [heap EXCEPT ![t].t.concurrent = ChanRecv(@)]
    /\ HeapStep

\* a dispatch on client k gets a 429 (v TRUE), or its cool-down ends
ClientThrottled(k, v) ==
    /\ ClientAt(k).throttled # v
    /\ heap' = [heap EXCEPT ![clients[k]].throttled = v]
    /\ HeapStep

\* SpecClients: clients made by NewClient and the gate operations of
\* dispatches on them
InitClients == NewClient(NilChan, 0, MaxSteps)

NextClients ==
    \/ NewClientCall
    \/ \E k \in DOMAIN clients : ClientGlobalAcquire(k)
    \/ \E k \in DOMAIN clients : ClientGlobalRelease(k)
    \/ \E k \in DOMAIN clients : ClientGlobalAllow(k)
    \/ \E k \in DOMAIN clients, r \in Realms : ClientGetRealmLimiter(k, r)
    \/ \E k \in DOMAIN clients, r \in Realms : ClientRealmAllow(k, r)
    \/ \E k \in DOMAIN clients, r \in Realms : ClientBatchAllow(k, r)
    \/ \E k \in DOMAIN clients, r \in Realms : ClientRealmAcquire(k, r)
    \/ \E k \in DOMAIN clients, r \in Realms : ClientRealmRelease(k, r)
    \/ \E k \in DOMAIN clients, v \in BOOLEAN : ClientThrottled(k, v)

SpecClients == InitClients /\ [][NextClients]_vars

\* ------------------------------------------- calls that wait, in cohorts
\* a waiting call of GetAttachableDownloadURL that has its global slot and
\* its global token, neither of which it waited for, and is about to call
\* getRealmLimiter; slow says that it is held up there
StalledCall(realm) ==
    [Through(AfterGlobalSlot(NewCall("download", realm, TRUE)), "globalRateLimiter", "lim")
        EXCEPT !.slow = TRUE]

\* As many waiting calls as there are global slots are made on one realm,
\* one after the other, and each is held up before getRealmLimiter.
HoldStall(realm) ==
    /\ calls = EmptyBag
    /\ ChanSendReady(ChanSendN(globalConcurrent, GlobalConcurrentCap - 1))
    /\ AllowOk(TakeTokens(globalRateLimiter, GlobalConcurrentCap - 1))
    /\ globalConcurrent' = ChanSendN(globalConcurrent, GlobalConcurrentCap)
    /\ globalRateLimiter' = TakeTokens(globalRateLimiter, GlobalConcurrentCap)
    /\ calls' = [c \in {StalledCall(realm)} |-> GlobalConcurrentCap]
    /\ UNCHANGED <<now, mu, limiters, trackers, br, budget, done, passed, legacy, world>>

\* The held up calls go on, one after the other, each to its return: none
\* waits for the realm's token or slot, and each exchange is answered 200.
HoldRun(realm) ==
    /\ calls = [c \in {StalledCall(realm)} |-> GlobalConcurrentCap]
    /\ MutexFree(mu)
    /\ AllowOk(TakeTokens(LookedUp(realm).general, GlobalConcurrentCap - 1))
    /\ ChanSendReady(LookedUp(realm).concurrent)
    /\ LET id == IF limiters[RegistryKey(realm)] # 0 THEN limiters[RegistryKey(realm)]
                 ELSE Len(trackers) + 1
           t == [LookedUp(realm) EXCEPT !.general = TakeTokens(@, GlobalConcurrentCap)]
       IN  /\ trackers' = [i \in DOMAIN trackers \cup {id} |->
                              IF i = id THEN t ELSE trackers[i]]
           /\ limiters' = [limiters EXCEPT ![RegistryKey(realm)] = id]
    /\ globalConcurrent' = [globalConcurrent EXCEPT !.len = @ - GlobalConcurrentCap]
    /\ calls' = EmptyBag
    /\ UNCHANGED <<now, globalRateLimiter, mu, br, budget, done, passed, legacy, world>>

\* the i-th of the calls that reserve a token of a bucket with `tokens` in
\* it, one after the other, asleep in limiter.general.Wait
QueuedCall(realm, id, tokens, i) ==
    [StalledCall(realm) EXCEPT
        !.pc = "rgWait", !.limiter = id, !.slow = FALSE,
        !.wake = now + CeilDiv(i * Token - tokens, GeneralPerMinute)]

\* As many waiting calls as there are global slots are made on one realm,
\* one after the other; none waits for its global slot or token, the
\* realm's bucket has no whole token, and each goes to sleep in
\* limiter.general.Wait.
HoldQueue(realm) ==
    /\ calls = EmptyBag
    /\ MutexFree(mu)
    /\ ChanSendReady(ChanSendN(globalConcurrent, GlobalConcurrentCap - 1))
    /\ AllowOk(TakeTokens(globalRateLimiter, GlobalConcurrentCap - 1))
    /\ limiters[RegistryKey(realm)] # 0
    /\ ~AllowOk(LookedUp(realm).general)
    /\ globalConcurrent' = ChanSendN(globalConcurrent, GlobalConcurrentCap)
    /\ globalRateLimiter' = TakeTokens(globalRateLimiter, GlobalConcurrentCap)
    /\ LET id == limiters[RegistryKey(realm)] IN
         /\ trackers' = [trackers EXCEPT
                            ![id].general = TakeTokens(@, GlobalConcurrentCap)]
         /\ calls' = SetToBag({QueuedCall(realm, id, trackers[id].general, i) :
                                   i \in 1..GlobalConcurrentCap})
    /\ UNCHANGED <<now, mu, limiters, br, budget, done, passed, legacy, world>>

\* the caller cancels a call's context; the callers do so budget times
HoldCancel(c) ==
    /\ budget > 0
    /\ ~c.ctxDone
    /\ c.pc \in {"gc", "gr", "grWait", "rg", "rgWait", "rc"}
    /\ calls' = Replace(c, [c EXCEPT !.ctxDone = TRUE])
    /\ budget' = budget - 1
    /\ UNCHANGED <<now, globalConcurrent, globalRateLimiter, mu, limiters, trackers,
                   br, done, passed, legacy, world>>

\* SpecHold: cohorts of waiting calls on realm A, and waiting calls made one
\* by one on either realm.  The calls that are held up go on together.
InitHold == NewClient(MakeChan(GlobalConcurrentCap), NewLimiter(GlobalBurst), MaxHoldOps)

NextHold ==
    \/ HoldStall("A")
    \/ HoldRun("A")
    \/ HoldQueue("A")
    \/ \E r \in Realms : Start("download", r, TRUE)
    \/ \E c \in InFlight : HoldCancel(c)
    \/ \E c \in InFlight : GlobalAcquire(c)
    \/ \E c \in InFlight : GlobalCancelled(c)
    \/ \E c \in InFlight : GlobalWait(c)
    \/ \E c \in InFlight : GlobalWaitEnd(c)
    \/ \E c \in InFlight : ~c.slow /\ GetRealmLimiterLock(c)
    \/ \E c \in InFlight : GetRealmLimiterReturn(c)
    \/ \E c \in InFlight : RealmWait(c)
    \/ \E c \in InFlight : RealmWaitEnd(c)
    \/ \E c \in InFlight : RealmAcquire(c, "sent")
    \/ \E c \in InFlight : HttpResponse(c, "s200")
    \/ \E c \in InFlight : RunDefer(c, FALSE)
    \/ \E c \in InFlight : Return(c, FALSE)
    \/ TickUntil(MaxHoldTime)

SpecHold == InitHold /\ [][NextHold]_vars

\* SpecBatchBusy: one BatchRequest on a client whose global slots other
\* calls may hold
NextBatchBusy ==
    \/ NextBatch
    \/ HoldStall("A")
    \/ HoldRun("A")

SpecBatchBusy == Init /\ [][NextBatchBusy]_vars

\* ---------------------------------------------------------------- Find*
\* FindAttachables and FindTimeActivities.  find.total is the number of
\* entities the service holds; TotalCount and entities are the fields of
\* resp, which every query decodes into: entities is <<>> for a nil slice
\* and otherwise holds the range of the positions of its elements; result
\* is the list built so far, range by range; queries logs the queries made,
\* start 0 for the COUNT query.
FindKinds == {"attachables", "timeActivities"}

\* what c.query returns when no other call is in flight: the gates of req in
\* their order, then the exchange
QueryResult(realm, out) ==
    IF ~ChanSendReady(globalConcurrent) THEN "globalConcurrentRL"
    ELSE IF ~AllowOk(globalRateLimiter) THEN "globalGeneralRL"
    ELSE IF ~AllowOk(LookedUp(realm).general) THEN "realmGeneralRL"
    ELSE IF ~ChanSendReady(LookedUp(realm).concurrent) THEN "realmConcurrentRL"
    ELSE Classify("req17", out)

\* the range of positions a page query gets: the entities from start on,
\* max at most; <<>> when there is none, and the response has no array
PageOf(total, start, max) ==
    IF start <= total THEN <<[from |-> start, to |-> Min(start + max - 1, total)]>>
    ELSE <<>>

PageLen(p) == IF p = <<>> THEN 0 ELSE p[1].to - p[1].from + 1

\* json decoding of a page response into resp: a key that is absent leaves
\* the field as it was
DecodedPage(f, withTotal) ==
    LET p == PageOf(f.total, f.i + 1, QueryPageSize) IN
    [f EXCEPT !.entities = IF p = <<>> THEN @ ELSE p,
              !.TotalCount = IF withTotal THEN PageLen(p) ELSE @]

\* the loop condition, and with it the next page query or the return
FindLoop(f) ==
    IF f.i < f.TotalCount THEN [f EXCEPT !.pc = "page"] ELSE [f EXCEPT !.pc = "done"]

FindFailed(f) == [f EXCEPT !.pc = "done", !.err = TRUE, !.result = <<>>]

\* after the COUNT query has returned
AfterCount(f, res) ==
    IF res # "ok" THEN FindFailed(f)
    ELSE LET g == [f EXCEPT !.TotalCount = f.total] IN
         IF g.TotalCount = 0
         THEN IF g.kind = "attachables" THEN FindFailed(g) ELSE [g EXCEPT !.pc = "done"]
         ELSE FindLoop([g EXCEPT !.i = 0])

\* after a page query has returned
AfterPage(f, res, withTotal) ==
    IF res # "ok" THEN FindFailed(f)
    ELSE LET g == DecodedPage(f, withTotal) IN
         IF g.kind = "attachables" /\ g.entities = <<>> THEN FindFailed(g)
         ELSE FindLoop([g EXCEPT !.result = @ \o g.entities, !.i = @ + QueryPageSize])

\* a Find* is called on a service that holds total entities
Find(kind, total) ==
    /\ find.pc = "idle"
    /\ find' = [find EXCEPT !.pc = "count", !.kind = kind, !.total = total]
    /\ UNCHANGED <<now, globalConcurrent, globalRateLimiter, mu, limiters, trackers,
                   calls, br, budget, done, passed, legacy, heap, clients>>

\* The next c.query of the Find*, from its gates to its return, and what the
\* Find* does with it.  withTotal says whether a page response has a
\* totalCount, the number of entities in it.
FindQuery(out, withTotal) ==
    /\ find.pc \in {"count", "page"}
    /\ MutexFree(mu)
    /\ LET res == QueryResult("A", out)
           f == [find EXCEPT !.last = res,
                             !.queries = Append(@, IF find.pc = "count"
                                                   THEN [start |-> 0, max |-> 0]
                                                   ELSE [start |-> find.i + 1,
                                                         max |-> QueryPageSize])]
           id == IF limiters[RegistryKey("A")] # 0 THEN limiters[RegistryKey("A")]
                 ELSE Len(trackers) + 1
       IN  /\ find' = IF find.pc = "count" THEN AfterCount(f, res)
                      ELSE AfterPage(f, res, withTotal)
           /\ globalRateLimiter' =
                 IF res \in {"globalConcurrentRL", "globalGeneralRL"} THEN globalRateLimiter
                 ELSE globalRateLimiter - Token
           /\ IF res \in {"globalConcurrentRL", "globalGeneralRL"}
              THEN UNCHANGED <<limiters, trackers>>
              ELSE /\ limiters' = [limiters EXCEPT ![RegistryKey("A")] = id]
                   /\ trackers' = [k \in DOMAIN trackers \cup {id} |->
                                     IF k # id THEN trackers[k]
                                     ELSE IF res = "realmGeneralRL" THEN LookedUp("A")
                                     ELSE [LookedUp("A") EXCEPT !.general = @ - Token]]
    /\ UNCHANGED <<now, globalConcurrent, mu, calls, br, budget, done, passed,
                   legacy, heap, clients>>

\* SpecFind: one Find* on a new client
NextFind ==
    \/ \E k \in FindKinds, t \in 0..MaxTotal : Find(k, t)
    \/ \E o \in Outcomes, w \in BOOLEAN : FindQuery(o, w)

SpecFind == Init /\ [][NextFind]_vars

\* ================================================================ claims
RealmHolders(r) == Count({c \in InFlight : c.realm = r /\ Holds(c, "r")})

TrackerHolders(i) == Count({c \in InFlight : c.limiter = i /\ Holds(c, "r")})

GlobalHolders == Count({c \in InFlight : Holds(c, "g")})

\* C1: for every realm, the calls that have taken the realm's concurrency
\* slot and not yet given it back number at most the capacity of the realm's
\* semaphore, whatever the mix of req and GetAttachableDownloadURL calls,
\* waiting or not.
C1_RealmSlotsBounded == \A r \in Realms : RealmHolders(r) <= RealmConcurrentCap

\* a realm's semaphore is full while a further call of the realm is in flight
C1_RealmFull ==
    /\ RealmHolders("A") = RealmConcurrentCap
    /\ \E c \in InFlight : c.realm = "A" /\ ~Holds(c, "r")

\* C2: the calls past the global gate and not yet returned, of all realms
\* together, number at most the capacity of the one global semaphore.
C2_GlobalSlotsBounded == GlobalHolders <= GlobalConcurrentCap

\* the global semaphore is full of calls of two realms, and it has turned
\* away a call of a realm that has a slot of its own to spare
C2_GlobalFullAcrossRealms ==
    /\ GlobalHolders = GlobalConcurrentCap
    /\ \E c, d \in InFlight : /\ Holds(c, "g") /\ c.realm = "A"
                              /\ Holds(d, "g") /\ d.realm = "B"
    /\ RealmHolders("B") < RealmConcurrentCap
    /\ \E c \in InFlight : c.realm = "B" /\ c.result = "globalConcurrentRL"

\* C3: each semaphore holds exactly the slots of the calls that took one and
\* have not yet run the deferred release: a call gives back every slot it
\* took once, on every way out, and none it did not take.  So with no call
\* in progress every semaphore is empty.
C3_SlotsReleasedOnce ==
    /\ globalConcurrent.len = GlobalHolders
    /\ \A i \in DOMAIN trackers : trackers[i].concurrent.len = TrackerHolders(i)
    /\ calls = EmptyBag =>
          /\ globalConcurrent.len = 0
          /\ \A i \in DOMAIN trackers : trackers[i].concurrent.len = 0

\* a call whose exchange or request build failed has given back its realm
\* slot, the only one taken from that semaphore, and is about to give back
\* the global one
C3_ReleasedAfterFailure ==
    \E c \in InFlight :
        /\ c.pc = "ret" /\ c.defers = <<"g">>
        /\ c.result \in {"transportErr", "apiRl", "failure", "decodeErr", "statusErr",
                         "buildErr"}
        /\ "concurrent" \in {c.gates[k] : k \in DOMAIN c.gates}
        /\ trackers[c.limiter].concurrent.len = 0

\* C4: every tracker ever made is the one the registry holds for its realm,
\* so a realm has one tracker, which is never replaced or removed, and every
\* call holds the tracker of its realm.
C4_OneTrackerPerRealm ==
    /\ \A i \in DOMAIN trackers : limiters[trackers[i].realm] = i
    /\ \A c \in InFlight : c.limiter # 0 =>
          /\ c.limiter = limiters[c.realm]
          /\ trackers[c.limiter].realm = c.realm

\* two calls made one step at a time for a realm with no tracker are both
\* past getRealmLimiter, with the realm's one tracker
C4_SharedTracker ==
    /\ Count({c \in InFlight : c.slow}) = 0
    /\ Len(trackers) = 1
    /\ Count({c \in InFlight : c.realm = "A" /\ c.limiter = 1
                        /\ c.pc \in {"rg", "rgWait", "rc", "http"}}) = 2

\* every call that will be made has been made, and every one that was not
\* turned away is in its exchange: the calls that got through were all in
\* flight together
AllAtOnce ==
    /\ budget = 0
    /\ done["ok"] = 0
    /\ \A c \in InFlight : c.pc = "http"

\* C5 as stated: of N > 10 calls of req in flight together on one realm, at
\* least N - 10 return the realm concurrency error.
C5_RealmConcurrentRejections ==
    AllAtOnce => done["realmConcurrentRL"] >= MaxBurstCalls - RealmConcurrentCap

\* C5 as the code has it: of N > 10 calls of req in flight together on one
\* realm of a new client, at least N - 10 return the global concurrency
\* error and none the realm concurrency error; a call a gate turns away has
\* sent nothing.
C5_GlobalConcurrentRejections ==
    /\ AllAtOnce =>
          /\ done["globalConcurrentRL"] >= MaxBurstCalls - GlobalConcurrentCap
          /\ done["realmConcurrentRL"] = 0
    /\ \A c \in InFlight : c.result \in GateResults => ~c.sent

\* ten calls are in their exchange and the rest have been turned away
C5_BurstTurnedAway ==
    /\ AllAtOnce
    /\ Count({c \in InFlight : c.pc = "http"}) = GlobalConcurrentCap
    /\ done["globalConcurrentRL"] = MaxBurstCalls - GlobalConcurrentCap

RECURSIVE SumPassed(_, _, _)
\* the calls the realm's general limiter let through in ticks t1..t2
SumPassed(r, t1, t2) ==
    IF t1 > t2 THEN 0 ELSE passed[r][t1] + SumPassed(r, t1 + 1, t2)

C7_CancelUnblocksGlobalGate ==
    \A c \in InFlight :
        (c.pc = "gc" /\ c.wait /\ c.ctxDone) => ENABLED GlobalCancelled(c)

\* C8 as stated: a call whose request the service answered with 429 returns
\* the rate limit error of the API.
C8_TooManyRequestsIsApiRl ==
    \A c \in InFlight : c.status = 429 => c.result = "apiRl"

\* the k-th chunk of the items, k from 1
Chunk(items, k) ==
    SubSeq(items, ChunkSize * (k - 1) + 1, Min(ChunkSize * k, Len(items)))

RECURSIVE Flatten(_)
\* the concatenation of a sequence of sequences
Flatten(ss) == IF ss = <<>> THEN <<>> ELSE Head(ss) \o Flatten(Tail(ss))

\* C9 as stated: a BatchRequest that has returned made exactly
\* ceil(N / ChunkSize) exchanges.
C9_ExactlyCeilCalls ==
    br.pc = "done" => Len(br.payloads) = CeilDiv(Len(br.items), ChunkSize)

\* C9 as the code has it: the exchanges of a BatchRequest carry the chunks
\* of ChunkSize items in input order, one call at a time, and stop at the
\* first call that fails.  When no call fails there are ceil(N / ChunkSize)
\* and the result is the concatenation of their responses in call order;
\* when one fails the result is nil with an error; for no items there is no
\* call and the result is nil without an error.
C9_ChunksInOrder ==
    /\ BagCardinality(calls) <= 1
    /\ Len(br.payloads) <= CeilDiv(Len(br.items), ChunkSize)
    /\ \A k \in DOMAIN br.payloads : br.payloads[k] = Chunk(br.items, k)
    /\ (br.pc = "done" /\ ~br.err) =>
          /\ Len(br.payloads) = CeilDiv(Len(br.items), ChunkSize)
          /\ Len(br.responses) = Len(br.payloads)
          /\ br.allResponses = Flatten(br.responses)
    /\ (br.pc = "done" /\ br.err) =>
          /\ br.allResponses = <<>>
          /\ Len(br.responses) < CeilDiv(Len(br.items), ChunkSize)
    /\ (br.pc = "done" /\ br.items = <<>>) =>
          /\ br.payloads = <<>> /\ br.allResponses = <<>> /\ ~br.err

\* 65 items went in three exchanges of 30, 30 and 5, and the result has the
\* responses as the service ordered them
C9_SixtyFiveItems ==
    /\ br.pc = "done" /\ ~br.err
    /\ Len(br.items) = 65
    /\ [k \in DOMAIN br.payloads |-> Len(br.payloads[k])] = <<30, 30, 5>>
    /\ br.responses[2] = Respond(br.payloads[2], "reversed")
    /\ Len(br.allResponses) = 65

IsPrefix(s, t) == Len(s) <= Len(t) /\ s = SubSeq(t, 1, Len(s))

\* C10: a call passes its gates in the order global semaphore, global
\* limiter, realm general limiter, realm semaphore; so a call that holds a
\* realm slot holds a global slot, and a call waiting on the global gate
\* holds no slot.
C10_GateOrder ==
    \A c \in InFlight :
        /\ IsPrefix(c.gates, GateOrder)
        /\ Holds(c, "r") => Holds(c, "g")
        /\ c.pc = "gc" => c.defers = <<>>

\* a call waits on the global gate while calls that went through every gate
\* hold the slots
C10_WaitingOnGlobal ==
    /\ \E c \in InFlight : c.pc = "gc" /\ c.wait /\ c.defers = <<>>
    /\ \E d \in InFlight : ~d.slow /\ d.gates = GateOrder /\ d.defers = <<"r", "g">>

\* the rate limit error that names a gate
RateLimitErrorOf(gate) ==
    CASE gate = "globalConcurrent" -> "globalConcurrentRL"
      [] gate = "globalRateLimiter" -> "globalGeneralRL"
      [] gate = "general" -> "realmGeneralRL"
      [] gate = "concurrent" -> "realmConcurrentRL"

\* C11: a call that does not wait and is turned away returns the rate limit
\* error of the gate next after those it passed, in the order of the gates,
\* and has sent nothing; a call that does not wait sends its request only
\* after passing all four gates.
C11_FirstExhaustedGate ==
    \A c \in InFlight : (~c.wait /\ c.op \in {"req17", "download"}) =>
        /\ c.result \in GateResults =>
              /\ Len(c.gates) < Len(GateOrder)
              /\ c.result = RateLimitErrorOf(GateOrder[Len(c.gates) + 1])
              /\ ~c.sent /\ c.status = 0
        /\ c.sent => c.gates = GateOrder

\* a call turned away at the third gate: it passed the two global gates,
\* holds the global slot until it returns, and never took a realm slot
C11_TurnedAwayAtThirdGate ==
    \E c \in InFlight :
        /\ ~c.wait /\ c.result = "realmGeneralRL"
        /\ c.gates = <<"globalConcurrent", "globalRateLimiter">>
        /\ c.defers = <<"g">> /\ ~c.sent

\* C12: a call that waits never returns a rate limit error of a local gate.
C12_BlockingNeverRejected ==
    \A c \in InFlight : c.wait => c.result \notin GateResults

\* a waiting call sleeps for a token of the global limiter, whose bucket has
\* less than a token: a call that did not wait would have been turned away
C12_WaitingAtGates ==
    /\ \E c \in InFlight : c.wait /\ c.pc = "grWait" /\ c.wake > now
    /\ ~AllowOk(globalRateLimiter)

\* C13: a call that does not wait is never at a gate without a step of its
\* own to take: it is never asleep for a token or blocked on a semaphore,
\* and at each gate its step is enabled however full the gate is.
C13_NonBlockingNeverWaits ==
    \A c \in InFlight : (~c.wait /\ c.op \in {"req17", "download"}) =>
        /\ c.pc \notin {"gc", "grWait", "rgWait"}
        /\ c.pc = "gr" => ENABLED GlobalAllow(c)
        /\ c.pc = "rg" => ENABLED RealmAllow(c)
        /\ c.pc = "rc" => ENABLED RealmTryAcquire(c, "sent")

\* a call that does not wait is at the realm's general limiter, whose
\* bucket has less than a token
C13_AtExhaustedGate ==
    \E c \in InFlight :
        ~c.wait /\ c.pc = "rg" /\ ~AllowOk(trackers[c.limiter].general)

\* the calls inside the critical section of getRealmLimiter
Locked == {c \in InFlight : c.pc \in {"limLocked", "blimLocked"}}

\* C16: the registry mutex is locked exactly while one call is between the
\* Lock and the Unlock of getRealmLimiter, and that call can always go on
\* to unlock it; no call waiting at a gate or in its exchange holds it.
C16_LockOnlyInLookup ==
    /\ mu <=> Count(Locked) = 1
    /\ Count(Locked) <= 1
    /\ \A c \in Locked : ENABLED GetRealmLimiterReturn(c)
    /\ \A c \in InFlight : c.pc \in {"gc", "grWait", "rgWait", "rc", "http"} => c \notin Locked

\* getRealmLimiter can be entered while another call is in its exchange and
\* a third waits for a slot
C16_LookupDuringExchange ==
    /\ ~mu
    /\ \E c \in InFlight : c.pc = "lim" /\ ENABLED GetRealmLimiterLock(c)
    /\ \E d \in InFlight : d.pc = "http"

BatchCalls == {c \in InFlight : c.op \in {"batch17", "batch16"}}

\* C14: every call of BatchRequest to the service is admitted by the realm's
\* batch limiter before it tries any other gate or sends; a call whose wait
\* on the batch limiter is cancelled returns an error with no permit taken
\* and nothing sent.
C14_BatchLimiterFirst ==
    \A c \in BatchCalls :
        /\ (c.sent \/ c.gates # <<>> \/ c.defers # <<>> \/ c.pc \in {"gc", "gr", "rg", "rc"})
               => c.gates # <<>> /\ c.gates[1] = "batch"
        /\ c.result = "waitErr" => c.gates = <<>> /\ c.defers = <<>> /\ ~c.sent

\* ------------------------------------------------------------------ C17
\* what dispatches on client k read of its quota: the count of its global
\* semaphore, the tokens of its global limiter, its registry with the
\* trackers in it, and its throttled flag
QuotaState(k) ==
    [globalConcurrent |-> heap[ClientAt(k).globalConcurrent].ch.len,
     globalRateLimiter |-> heap[ClientAt(k).globalRateLimiter].tokens,
     registry |-> [r \in Realms |->
                     IF ManagerOf(k).limiters[r] = 0 THEN <<>>
                     ELSE <<heap[ManagerOf(k).limiters[r]].t>>],
     throttled |-> ClientAt(k).throttled]

\* the addresses of the objects client k reaches
Refs(k) ==
    ({clients[k], ClientAt(k).globalConcurrent, ClientAt(k).globalRateLimiter,
      ClientAt(k).rateLimiter}
     \cup {ManagerOf(k).limiters[r] : r \in Realms}) \ {0}

\* C17: two clients made by separate NewClient calls reach no common
\* object, and a step that changes the quota state of one leaves the quota
\* state of the other as it was, also when both use the same realm id.
C17_ClientsShareNothing ==
    /\ [](\A x, y \in DOMAIN clients : x # y => Refs(x) \cap Refs(y) = {})
    /\ [][\A x, y \in DOMAIN clients :
             (x # y /\ QuotaState(x)' # QuotaState(x)) => QuotaState(y)' = QuotaState(y)]_vars

\* both clients have made the tracker of realm A; the first holds a global
\* slot and a slot of A, has spent a global token and is throttled, and the
\* second is as NewClient and getRealmLimiter left it
C17_OneBusyOneIdle ==
    /\ Len(clients) = 2
    /\ QuotaState(1).globalConcurrent = 1
    /\ QuotaState(1).globalRateLimiter = NewLimiter(GlobalBurst) - Token
    /\ QuotaState(1).throttled
    /\ QuotaState(1).registry["A"] # <<>>
    /\ QuotaState(1).registry["A"][1].concurrent.len = 1
    /\ QuotaState(2) = [globalConcurrent |-> 0,
                         globalRateLimiter |-> NewLimiter(GlobalBurst),
                         registry |-> [r \in Realms |->
                                         IF r = "A" THEN <<NewRealmRateLimiters("A")>>
                                         ELSE <<>>],
                         throttled |-> FALSE]

\* ------------------------------------------------------------------ C18
\* C18: every exchange with the service, uploads and downloads included, is
\* made by a call that has passed the global and the realm limiter and holds
\* a global slot and a slot of its realm.
C18_ExchangeOnlyThroughGates ==
    \A c \in InFlight :
        (c.sent \/ c.pc = "http") =>
            /\ c.gates = GateOrder
            /\ c.pc = "http" => Holds(c, "g") /\ Holds(c, "r")

\* ------------------------------------------------------------------ C19
\* C19: a dispatch returns nil and writes the caller's response object only
\* when the status is 200; with any other status it returns an error and
\* does not decode the body into the response object.
C19_SuccessOnlyOn200 ==
    \A c \in InFlight :
        /\ c.result = "ok" => c.status = 200
        /\ c.decoded => c.status = 200
        /\ c.status \notin {0, 200} => c.result \notin {"none", "ok"}

\* ------------------------------------------------------------------ C20
\* a cool-down goroutine has been started and has not cleared the flag yet
CoolingDown == \E k \in DOMAIN timers : timers[k] > 0

TimersStarted(ts) == ts[CoolDown * TicksPerMinute]

\* C20: a 429 sets throttled and starts a cool-down of CoolDown minutes;
\* while throttled is set a cool-down is pending; the flag is cleared again
\* with no further call; a client that has made no call is not throttled.
C20_ThrottledCoolsDown ==
    /\ [](throttled => CoolingDown)
    /\ []((budget = MaxLegacyCalls /\ br.pc = "idle") => ~throttled)
    /\ [][\A c \in InFlight :
             (c.pc = "http" /\ \E d \in BOOLEAN :
                  calls' = Replace(c, LegacyResponded(c, "s429", d)))
             => throttled' /\ TimersStarted(timers') = TimersStarted(timers) + 1]_vars
    /\ (throttled ~> ~throttled)

\* a 429 was answered, the cool-down has passed and the flag is clear again,
\* before the call that got the 429 has even been collected
C20_CooledDown ==
    /\ ~throttled
    /\ ~CoolingDown
    /\ \E c \in InFlight : c.status = 429 /\ c.pc = "ret"

\* ------------------------------------------------------------------ C21
\* C21: the throttled flag is advisory: a call that begins in a state and
\* the same call in the state that differs only in the flag take the same
\* gates, both send or both do not, and return the same result.
C21_ThrottledIsAdvisory ==
    budget > 0 =>
        \A b \in Builds :
            LET seen == LegacyStartedWhen(throttled, "req16", b)
                other == LegacyStartedWhen(~throttled, "req16", b)
            IN  /\ seen.gates = other.gates
                /\ seen.sent = other.sent
                /\ seen.result = other.result

\* ------------------------------------------------------------------ C22
\* the calls that a step makes, moves or ends
Moved == {c \in BagToSet(calls) \cup BagToSet(calls') :
              CopiesIn(c, calls) # CopiesIn(c, calls')}

\* C22: the trackers of two realms are never the same object, no call for
\* one realm has the tracker of another, and a step of a call for one realm
\* leaves the tracker of every other realm as it was.
C22_RealmsArePartitioned ==
    /\ [](\A r1, r2 \in Realms :
            (r1 # r2 /\ limiters[r1] # 0) => limiters[r1] # limiters[r2])
    /\ [](\A c \in InFlight : c.limiter # 0 => c.limiter = limiters[c.realm])
    /\ [][now' = now =>
            \A c \in Moved : \A r \in Realms \ {c.realm} :
                /\ limiters'[r] = limiters[r]
                /\ limiters[r] # 0 => trackers'[limiters[r]] = trackers[limiters[r]]]_vars

\* a call for realm A is in its exchange, with a token and a slot of A's
\* tracker, and the tracker of realm B is there, full and idle
C22_OneRealmBusy ==
    /\ limiters["A"] # 0 /\ limiters["B"] # 0
    /\ \E c \in InFlight : c.realm = "A" /\ c.pc = "http" /\ ~c.slow
    /\ trackers[limiters["A"]].concurrent.len = 1
    /\ trackers[limiters["A"]].general = NewLimiter(GeneralBurst) - Token
    /\ trackers[limiters["B"]] = NewRealmRateLimiters("B")

\* ------------------------------------------------------------------ C23
\* the results returned so far and those about to be
Returned(res) == done[res] + Count({c \in InFlight : c.result = res})

\* C23 as stated: no call of req that is past the two global checks is
\* turned away by a gate of its realm.
C23_RealmGatesNeverReject ==
    Returned("realmConcurrentRL") = 0 /\ Returned("realmGeneralRL") = 0

\* C23 as the code has it: the realm semaphore never turns a call away,
\* and a call that comes to it finds a free slot; the realm's general
\* limiter turns no call away as long as no bucket has been refilled.
C23_RealmSemaphoreNeverRejects ==
    /\ Returned("realmConcurrentRL") = 0
    /\ \A c \in InFlight : c.pc = "rc" => ChanSendReady(trackers[c.limiter].concurrent)
    /\ now = 0 => Returned("realmGeneralRL") = 0

\* a call that passed both global checks was turned away by the general
\* limiter of its realm
C23_RealmLimiterTurnsAway ==
    \E c \in InFlight :
        /\ c.result = "realmGeneralRL"
        /\ c.gates = <<"globalConcurrent", "globalRateLimiter">>

\* ------------------------------------------------------------------ C24
\* the moved calls that a gate of their realm has turned away or turns away
TurnedAwayLate == {c \in Moved : c.result \in {"realmGeneralRL", "realmConcurrentRL"}}

\* C24: a call that does not wait and is turned away at a gate of its realm
\* took a token of every limiter before that gate when it passed it, and no
\* step of it gives a token back, neither the step that turns it away nor
\* its return; the one slot it has, the global one, it gives back as it
\* returns.
C24_TokensKeptSlotsReturned ==
    /\ [](\A c \in InFlight :
            /\ c.result = "realmGeneralRL" =>
                  /\ c.gates = <<"globalConcurrent", "globalRateLimiter">>
                  /\ c.defers \in {<<"g">>, <<>>}
            /\ c.result = "realmConcurrentRL" =>
                  /\ c.gates = <<"globalConcurrent", "globalRateLimiter", "general">>
                  /\ c.defers \in {<<"g">>, <<>>})
    /\ [][\A c \in InFlight :
             (~c.wait /\ c.pc = "gr"
                /\ \E d \in BagToSet(calls') : d.gates = Append(c.gates, "globalRateLimiter")
                                               /\ calls' = Replace(c, d))
             => globalRateLimiter' = globalRateLimiter - Token]_vars
    /\ [][TurnedAwayLate # {} =>
             /\ globalRateLimiter' = globalRateLimiter
             /\ \A i \in DOMAIN trackers :
                   /\ trackers'[i].general = trackers[i].general
                   /\ trackers'[i].batch = trackers[i].batch
                   /\ trackers'[i].concurrent = trackers[i].concurrent
             /\ \A c \in TurnedAwayLate \cap InFlight :
                   c.defers = <<"g">> =>
                       globalConcurrent' = ChanRecv(globalConcurrent)]_vars

\* a call that the realm's general limiter turned away is about to return:
\* the global bucket is without the token it took
C24_TurnedAwayTokenGone ==
    \E c \in InFlight :
        /\ ~c.wait /\ c.result = "realmGeneralRL" /\ c.defers = <<"g">>
        /\ globalRateLimiter <= NewLimiter(GlobalBurst) - Token
        /\ ENABLED RunDefer(c, FALSE)

\* ------------------------------------------------------------------ C25
\* C25: a call that waits has its global slot at every gate after the first,
\* asleep or not, and a waiting call at the global gate cannot pass it while
\* every slot is held.
C25_SlotKeptWhileWaiting ==
    /\ \A c \in InFlight :
          (c.wait /\ c.pc \in {"gr", "grWait", "lim", "limLocked", "rg", "rgWait", "rc"})
              => Holds(c, "g")
    /\ globalConcurrent.len = Count({c \in InFlight : Holds(c, "g")})
    /\ \A c \in InFlight :
          (c.wait /\ c.pc = "gc")
              => (ENABLED GlobalAcquire(c) <=> globalConcurrent.len < GlobalConcurrentCap)

\* every global slot is held by a call asleep in the general limiter of
\* realm A, and a waiting call for realm B, which has no tracker yet, is
\* stuck at the global gate
C25_IdleRealmStarved ==
    /\ Count({c \in InFlight : c.realm = "A" /\ c.pc = "rgWait" /\ Holds(c, "g")})
          = GlobalConcurrentCap
    /\ limiters["B"] = 0
    /\ \E c \in InFlight :
          /\ c.realm = "B" /\ c.wait /\ c.pc = "gc" /\ ~c.ctxDone
          /\ ~ENABLED GlobalAcquire(c)

\* ------------------------------------------------------------------ C26
\* the calls that wait at a gate and have not been cancelled
AtGate == {c \in InFlight : c.wait /\ ~c.ctxDone
                             /\ c.pc \in {"gc", "gr", "grWait", "rg", "rgWait", "rc"}}

\* C26: a waiting call at the global gate that is not cancelled can take
\* a slot, or some call holds a slot that it gives back when it returns;
\* and time and again no call that was not cancelled is at a gate.
C26_WaitingCallsGetThrough ==
    /\ [](\A c \in AtGate :
            c.pc = "gc" => \/ ENABLED GlobalAcquire(c)
                           \/ \E d \in InFlight : Holds(d, "g"))
    /\ []<>(AtGate = {})

\* ------------------------------------------------------------------ C27
\* C27: a call of Client.batch takes one token of the batch bucket as it
\* passes the batch limiter and then the gates of req in their order, so in
\* its exchange it has passed all five and holds both slots; a later gate
\* can turn it away, and no step of a call that has passed the batch
\* limiter changes the batch bucket.
C27_BatchTokenThenGates ==
    /\ [](\A c \in InFlight : c.op = "batch17" =>
            /\ c.gates # <<>> =>
                  \E k \in 0..Len(GateOrder) : c.gates = <<"batch">> \o SubSeq(GateOrder, 1, k)
            /\ c.pc = "http" =>
                  /\ c.gates = <<"batch">> \o GateOrder
                  /\ Holds(c, "g") /\ Holds(c, "r")
            /\ c.result \in GateResults => c.gates # <<>> /\ ~c.sent)
    /\ [][\A c \in InFlight :
             (c.pc = "bw" /\ calls' = Replace(c, Through(c, "batch", "gc")))
             => trackers'[c.limiter].batch = trackers[c.limiter].batch - Token]_vars
    /\ [][\A c \in Moved \cap InFlight :
             (c.op = "batch17" /\ c.gates # <<>>)
             => \A i \in DOMAIN trackers : trackers'[i].batch = trackers[i].batch]_vars

\* a batch call that took its batch token found every global slot held and
\* is about to return the error; the token is gone from the bucket
C27_TurnedAwayAfterBatchToken ==
    \E c \in InFlight :
        /\ c.op = "batch17" /\ c.result = "globalConcurrentRL"
        /\ c.gates = <<"batch">>
        /\ trackers[c.limiter].batch = NewLimiter(BatchBurst) - Token

\* ------------------------------------------------------------------ C28
\* the number of the chunk whose call BatchRequest made last, from 1
LastChunk == br.start \div ChunkSize + 1

\* C28: when a call of a BatchRequest fails, BatchRequest returns nil with
\* an error whatever the earlier calls brought; the failed call was the last
\* one made, every chunk before it was sent once and answered, no chunk
\* after it is sent, and a BatchRequest that has returned makes no call.
C28_FailedBatchReturnsNothing ==
    /\ []((br.pc = "done" /\ br.err) =>
            /\ br.allResponses = <<>>
            /\ \A c \in InFlight : c.op # "batch17"
            /\ Len(br.responses) \in {LastChunk - 1, LastChunk}
            /\ Len(br.payloads) \in {LastChunk - 1, LastChunk}
            /\ \A k \in DOMAIN br.payloads : br.payloads[k] = Chunk(br.items, k))
    /\ [][br.pc = "done" => (br' = br /\ calls' = calls)]_vars

\* the third call of a BatchRequest failed after the service had answered the
\* first two, and BatchRequest has returned nil and an error
C28_ThirdCallFailed ==
    /\ br.pc = "done" /\ br.err
    /\ LastChunk = 3
    /\ Len(br.responses) = 2
    /\ br.allResponses = <<>>

\* ------------------------------------------------------------------ C29
\* a cool-down that a 429 started has not run its time yet
WindowOpen == \E k \in DOMAIN timers : k > 0 /\ timers[k] > 0

\* C29: while the cool-down of the latest 429 has not run its time the
\* flag is set, whatever cool-downs of earlier 429s have ended; and never
\* are two parties ready to write the flag at once.
C29_ThrottledForFullWindow ==
    /\ WindowOpen => throttled
    /\ ~(ENABLED TimerFires
           /\ \E c \in InFlight : ENABLED LegacyHttpResponse(c, "s429", TRUE))

\* ------------------------------------------------------------------ C30
Pages(total) == CeilDiv(total, QueryPageSize)

\* C30: a Find* that has returned made the COUNT query and then page
\* queries from positions 1, 1001, 2001, ... of QueryPageSize each, one
\* after the other; when no query failed there were ceil(total /
\* QueryPageSize) of them and the result is their pages in order; when one
\* failed it was the last one made and the result is nil with an error.
C30_FullListInPages ==
    find.pc = "done" =>
        /\ find.queries # <<>> /\ find.queries[1].start = 0
        /\ \A k \in 2..Len(find.queries) :
              find.queries[k] = [start |-> (k - 2) * QueryPageSize + 1, max |-> QueryPageSize]
        /\ find.last = "ok" =>
              /\ Len(find.queries) = 1 + Pages(find.total)
              /\ find.total > 0 =>
                    /\ ~find.err
                    /\ find.result = [k \in 1..Pages(find.total) |->
                                        PageOf(find.total, (k - 1) * QueryPageSize + 1,
                                               QueryPageSize)[1]]
        /\ find.last # "ok" => find.err /\ find.result = <<>>

====
